---- MODULE Spec2Model ----
(***************************************************************************)
(* convert_fixtures.py: conversion of Swagger 2.0 fixture documents to     *)
(* OpenAPI 3.0.                                                            *)
(*                                                                         *)
(* Strings are sequences of one-character strings, so that str.replace and *)
(* str.startswith are computed on the characters.  A parsed document lives *)
(* in a heap of dict and list objects (Python reference semantics): a      *)
(* value is a scalar or a reference to a heap object, so that sharing of   *)
(* sub-trees between the input and the output of convert_spec is a         *)
(* consequence of the assignments of the code.  A file's content is a tree *)
(* (the text up to formatting) or is malformed; parsing loads a tree into  *)
(* a heap, serialising reads the tree back out of the heap.                *)
(***************************************************************************)
EXTENDS Integers, Sequences, FiniteSets, TLC

VARIABLES
    pc,         \* converter run: "parsed", "converted", "reconverted"; "off" in a batch run
    doc,        \* the document as parsed, before convert_spec is called (a tree)
    heap,       \* the heap of dict and list objects
    data,       \* the value convert_spec is called with
    result,     \* what the call returned: [raised, v]
    first,      \* the first call's returned document, as a tree
    result2,    \* what convert_spec(convert_spec(data)) returned
    mpc,        \* main: "idle", "loop", "done"; "off" in a converter run
    dirExists,  \* fixtures_dir.exists()
    fs,         \* the fixture files in sorted path order: [content, writable]
    idx,        \* position of main's loop in sorted(files)
    count,      \* converted_count
    rc,         \* what main returned: 0, 1, or -1 while it runs
    run,        \* number of the current invocation of main
    errs,       \* the error stream of the current invocation
    log         \* per invocation, what convert_file did with each file

convVars == <<pc, doc, heap, data, result, first, result2>>
batchVars == <<mpc, dirExists, fs, idx, count, rc, run, errs, log>>
vars == <<pc, doc, heap, data, result, first, result2,
          mpc, dirExists, fs, idx, count, rc, run, errs, log>>

(***************************************************************************)
(* String literals of the source.                                          *)
(***************************************************************************)
K_ref == <<"$", "r", "e", "f">>
K_openapi == <<"o", "p", "e", "n", "a", "p", "i">>
K_swagger == <<"s", "w", "a", "g", "g", "e", "r">>
K_info == <<"i", "n", "f", "o">>
K_title == <<"t", "i", "t", "l", "e">>
K_version == <<"v", "e", "r", "s", "i", "o", "n">>
K_externalDocs == <<"e", "x", "t", "e", "r", "n", "a", "l", "D", "o", "c", "s">>
K_tags == <<"t", "a", "g", "s">>
K_security == <<"s", "e", "c", "u", "r", "i", "t", "y">>
K_host == <<"h", "o", "s", "t">>
K_basePath == <<"b", "a", "s", "e", "P", "a", "t", "h">>
K_schemes == <<"s", "c", "h", "e", "m", "e", "s">>
K_servers == <<"s", "e", "r", "v", "e", "r", "s">>
K_url == <<"u", "r", "l">>
K_components == <<"c", "o", "m", "p", "o", "n", "e", "n", "t", "s">>
K_definitions == <<"d", "e", "f", "i", "n", "i", "t", "i", "o", "n", "s">>
K_schemas == <<"s", "c", "h", "e", "m", "a", "s">>
K_parameters == <<"p", "a", "r", "a", "m", "e", "t", "e", "r", "s">>
K_responses == <<"r", "e", "s", "p", "o", "n", "s", "e", "s">>
K_securityDefinitions == <<"s", "e", "c", "u", "r", "i", "t", "y", "D", "e", "f", "i", "n", "i", "t", "i", "o", "n", "s">>
K_securitySchemes == <<"s", "e", "c", "u", "r", "i", "t", "y", "S", "c", "h", "e", "m", "e", "s">>
K_paths == <<"p", "a", "t", "h", "s">>
LegacyDefinitions == <<"#", "/", "d", "e", "f", "i", "n", "i", "t", "i", "o", "n", "s", "/">>
LegacyParameters == <<"#", "/", "p", "a", "r", "a", "m", "e", "t", "e", "r", "s", "/">>
LegacyResponses == <<"#", "/", "r", "e", "s", "p", "o", "n", "s", "e", "s", "/">>
ModernSchemas == <<"#", "/", "c", "o", "m", "p", "o", "n", "e", "n", "t", "s", "/", "s", "c", "h", "e", "m", "a", "s", "/">>
ModernParameters == <<"#", "/", "c", "o", "m", "p", "o", "n", "e", "n", "t", "s", "/", "p", "a", "r", "a", "m", "e", "t", "e", "r", "s", "/">>
ModernResponses == <<"#", "/", "c", "o", "m", "p", "o", "n", "e", "n", "t", "s", "/", "r", "e", "s", "p", "o", "n", "s", "e", "s", "/">>
S_300 == <<"3", ".", "0", ".", "0">>
S_API == <<"A", "P", "I">>
S_100 == <<"1", ".", "0", ".", "0">>
S_http == <<"h", "t", "t", "p">>
S_localhost == <<"l", "o", "c", "a", "l", "h", "o", "s", "t">>
S_sep == <<":", "/", "/">>
S_xdash == <<"x", "-">>
S_None == <<"N", "o", "n", "e">>

(***************************************************************************)
(* Values.  Scalars: a string, a number (its decimal digits), null.  In a  *)
(* tree a mapping is Dict(<<[k, v], ...>>) in insertion order and a        *)
(* sequence is List(<<v, ...>>); in the heap their place is taken by       *)
(* Ref(address).                                                           *)
(***************************************************************************)
Str(s) == [t |-> "str", s |-> s]
Num(d) == [t |-> "num", s |-> d]
Null == [t |-> "null"]
Ref(a) == [t |-> "ref", a |-> a]
Dict(items) == [t |-> "dict", items |-> items]
List(items) == [t |-> "list", items |-> items]
KV(k, v) == [k |-> k, v |-> v]

IsDict(h, v) == v.t = "ref" /\ h[v.a].t = "dict"
IsList(h, v) == v.t = "ref" /\ h[v.a].t = "list"

\* key in d
Has(items, k) == \E i \in 1..Len(items) : items[i].k = k
\* d[key]
Get(items, k) == items[CHOOSE i \in 1..Len(items) : items[i].k = k].v
\* d.get(key, default)
GetOr(items, k, default) == IF Has(items, k) THEN Get(items, k) ELSE default
\* d[key] = v: an existing key keeps its place, a new key goes last
Put(items, k, v) ==
    IF Has(items, k)
    THEN [i \in 1..Len(items) |-> IF items[i].k = k THEN KV(k, v) ELSE items[i]]
    ELSE Append(items, KV(k, v))
Keys(items) == {items[i].k : i \in 1..Len(items)}

\* a new dict or list object; its reference is Ref(Len(heap))
Alloc(h, t, items) == Append(h, [t |-> t, items |-> items])

\* the object built from loaded items r = [h, items]: [h, v]
Stored(r, t) == [h |-> Alloc(r.h, t, r.items), v |-> Ref(Len(r.h) + 1)]
Prepend(x, r) == [h |-> r.h, items |-> <<x>> \o r.items]

RECURSIVE Load(_, _), LoadSeq(_, _, _), LoadRest(_, _, _)
\* json.load / yaml.safe_load of well-formed text: the tree becomes heap objects
Load(h, tr) ==
    IF tr.t \in {"dict", "list"}
    THEN Stored(LoadSeq(h, tr.items, tr.t = "dict"), tr.t)
    ELSE [h |-> h, v |-> tr]
LoadSeq(h, items, isDict) ==
    IF items = <<>> THEN [h |-> h, items |-> <<>>]
    ELSE LoadRest(Load(h, IF isDict THEN Head(items).v ELSE Head(items)), items, isDict)
LoadRest(r, items, isDict) ==
    Prepend(IF isDict THEN KV(Head(items).k, r.v) ELSE r.v,
            LoadSeq(r.h, Tail(items), isDict))

RECURSIVE Deep(_, _)
\* json.dump / yaml.dump: the tree a value stands for
Deep(h, v) ==
    IF v.t = "ref"
    THEN LET n == h[v.a]
         IN  [t |-> n.t,
              items |-> [i \in 1..Len(n.items) |->
                            IF n.t = "dict"
                            THEN KV(n.items[i].k, Deep(h, n.items[i].v))
                            ELSE Deep(h, n.items[i])]]
    ELSE v

RECURSIVE TreeEq(_, _)
\* Python's ==: mappings compare without regard to order, sequences in order
TreeEq(a, b) ==
    IF a.t # b.t THEN FALSE
    ELSE IF a.t = "dict"
    THEN /\ Keys(a.items) = Keys(b.items)
         /\ \A k \in Keys(a.items) : TreeEq(Get(a.items, k), Get(b.items, k))
    ELSE IF a.t = "list"
    THEN /\ Len(a.items) = Len(b.items)
         /\ \A i \in 1..Len(a.items) : TreeEq(a.items[i], b.items[i])
    ELSE a = b
PyEq(h, v, w) == TreeEq(Deep(h, v), Deep(h, w))

\* bool(v)
Truthy(h, v) ==
    CASE v.t = "str" -> v.s # <<>>
      [] v.t = "num" -> v.s # <<"0">>
      [] v.t = "null" -> FALSE
      [] v.t = "ref" -> h[v.a].items # <<>>

(***************************************************************************)
(* str methods.                                                            *)
(***************************************************************************)
StartsWith(s, p) == Len(s) >= Len(p) /\ SubSeq(s, 1, Len(p)) = p

RECURSIVE Replace(_, _, _)
\* s.replace(old, new), old not empty: leftmost occurrences, not overlapping
Replace(s, old, new) ==
    IF Len(s) < Len(old) THEN s
    ELSE IF StartsWith(s, old)
    THEN new \o Replace(SubSeq(s, Len(old) + 1, Len(s)), old, new)
    ELSE <<Head(s)>> \o Replace(Tail(s), old, new)

Contains(s, p) == \E i \in 1..(Len(s) - Len(p) + 1) : SubSeq(s, i, i + Len(p) - 1) = p

(***************************************************************************)
(* convert_ref, convert_schema_refs.                                       *)
(***************************************************************************)
\* variant of RewriteString: the replacement of #/responses/ is forgotten
RewriteStringTwo(s) ==
    Replace(Replace(s, LegacyDefinitions, ModernSchemas),
            LegacyParameters, ModernParameters)

\* the three replacements of convert_ref, applied in the order of the code
RewriteString(s) ==
    Replace(Replace(Replace(s, LegacyDefinitions, ModernSchemas),
                    LegacyParameters, ModernParameters),
            LegacyResponses, ModernResponses)

\* convert_ref(ref_string): a falsy value is returned as it is; a string is
\* rewritten; any other value has no replace method (AttributeError)
convert_ref(h, v) ==
    IF ~Truthy(h, v) THEN [raised |-> FALSE, v |-> v]
    ELSE IF v.t = "str" THEN [raised |-> FALSE, v |-> Str(RewriteString(v.s))]
    ELSE [raised |-> TRUE, v |-> v]

\* obj[key] = v on the heap object at address a
SetItem(h, a, k, v) == [h EXCEPT ![a].items = Put(@, k, v)]

\* the elements that the loops of convert_schema_refs visit, in order
Children(n) ==
    [i \in 1..Len(n.items) |-> IF n.t = "dict" THEN n.items[i].v ELSE n.items[i]]

RECURSIVE convert_schema_refs(_, _), AssignRef(_, _, _), WalkItems(_, _, _), WalkNext(_, _, _)
\* convert_schema_refs(obj): rewrites in place; [h, raised]
convert_schema_refs(h, obj) ==
    IF IsDict(h, obj) /\ Has(h[obj.a].items, K_ref)
    THEN AssignRef(h, obj.a, convert_ref(h, Get(h[obj.a].items, K_ref)))
    ELSE IF IsDict(h, obj) \/ IsList(h, obj) THEN WalkItems(h, obj.a, 1)
    ELSE [h |-> h, raised |-> FALSE]
\* obj['$ref'] = c, then the loop over obj.items()
AssignRef(h, a, c) ==
    IF c.raised THEN [h |-> h, raised |-> TRUE]
    ELSE WalkItems(SetItem(h, a, K_ref, c.v), a, 1)
\* the loop, from the i-th element on
WalkItems(h, a, i) ==
    IF i > Len(h[a].items) THEN [h |-> h, raised |-> FALSE]
    ELSE WalkNext(convert_schema_refs(h, Children(h[a])[i]), a, i)
WalkNext(r, a, i) == IF r.raised THEN r ELSE WalkItems(r.h, a, i + 1)

(***************************************************************************)
(* convert_spec.  While the new mapping is built the state of the call is  *)
(* a frame [h, new, raised]: the heap, the address of new_spec, and        *)
(* whether an exception ended the call.                                    *)
(***************************************************************************)
\* variant of IsPassthrough: the test for an openapi key is forgotten
IsPassthroughNoOpenapi(h, spec) ==
    \/ ~IsDict(h, spec)
    \/ ~Has(h[spec.a].items, K_swagger)

\* the three early returns: the value is handed back as it is
IsPassthrough(h, spec) ==
    \/ ~IsDict(h, spec)
    \/ Has(h[spec.a].items, K_openapi)
    \/ ~Has(h[spec.a].items, K_swagger)

\* the default of spec.get('info', ...), built whether it is used or not
DefaultInfo(h) ==
    Alloc(h, "dict", <<KV(K_title, Str(S_API)), KV(K_version, Str(S_100))>>)

\* variant of NewSpec: the version is stored under the key swagger
NewSpecSwaggerKey(h, src) ==
    [h |-> Alloc(DefaultInfo(h), "dict",
                 <<KV(K_swagger, Str(S_300)),
                   KV(K_info, GetOr(src, K_info, Ref(Len(h) + 1)))>>),
     new |-> Len(h) + 2,
     raised |-> FALSE]

\* new_spec = {'openapi': '3.0.0', 'info': spec.get('info', {...})}
NewSpec(h, src) ==
    [h |-> Alloc(DefaultInfo(h), "dict",
                 <<KV(K_openapi, Str(S_300)),
                   KV(K_info, GetOr(src, K_info, Ref(Len(h) + 1)))>>),
     new |-> Len(h) + 2,
     raised |-> FALSE]

\* if from in spec: target[to] = spec[from]
CopyField(h, a, src, from, to) ==
    IF Has(src, from) THEN SetItem(h, a, to, Get(src, from)) ELSE h

CopyBasic(f, src) ==
    [f EXCEPT !.h = CopyField(CopyField(CopyField(@, f.new, src, K_externalDocs, K_externalDocs),
                                        f.new, src, K_tags, K_tags),
                              f.new, src, K_security, K_security)]

\* what a for loop iterates over: the elements of a list, the characters of a
\* string, the keys of a dict; anything else is not iterable (TypeError)
Iterate(h, v) ==
    CASE IsList(h, v) -> [raised |-> FALSE, items |-> h[v.a].items]
      [] IsDict(h, v) -> [raised |-> FALSE,
                          items |-> [i \in 1..Len(h[v.a].items) |-> Str(h[v.a].items[i].k)]]
      [] v.t = "str" -> [raised |-> FALSE, items |-> [i \in 1..Len(v.s) |-> Str(<<v.s[i]>>)]]
      [] OTHER -> [raised |-> TRUE, items |-> <<>>]

\* how an f-string formats a scalar
Format(v) ==
    CASE v.t = "str" -> v.s
      [] v.t = "num" -> v.s
      [] v.t = "null" -> S_None

\* variant of ServerUrl: basePath is left out of the url
ServerUrlNoBase(scheme, host, base_path) ==
    Format(scheme) \o S_sep \o Format(host)

ServerUrl(scheme, host, base_path) ==
    Format(scheme) \o S_sep \o Format(host) \o Format(base_path)

RECURSIVE AppendServers(_, _, _, _, _)
\* for scheme in schemes: servers.append({'url': ...})
AppendServers(h, servers, schemes, host, base_path) ==
    IF schemes = <<>> THEN h
    ELSE AppendServers(
            [Alloc(h, "dict", <<KV(K_url, Str(ServerUrl(Head(schemes), host, base_path)))>>)
                EXCEPT ![servers].items = Append(@, Ref(Len(h) + 1))],
            servers, Tail(schemes), host, base_path)

HasServerField(src) == Has(src, K_host) \/ Has(src, K_basePath) \/ Has(src, K_schemes)

\* servers = []
ServersList(f) ==
    [h |-> Alloc(f.h, "list", <<>>), new |-> f.new, servers |-> Len(f.h) + 1,
     raised |-> FALSE]
\* the default of spec.get('schemes', ['http']), built whether it is used or not
DefaultSchemes(g) == [g EXCEPT !.h = Alloc(@, "list", <<Str(S_http)>>)]
\* lines 72-75, it being what the loop iterates over
ServersFor(g, it, src) ==
    IF it.raised THEN [g EXCEPT !.raised = TRUE]
    ELSE [g EXCEPT !.h = AppendServers(@, g.servers, it.items,
                                       GetOr(src, K_host, Str(S_localhost)),
                                       GetOr(src, K_basePath, Str(<<>>)))]
\* lines 71-75
SchemesLoop(g, src) ==
    ServersFor(g, Iterate(g.h, GetOr(src, K_schemes, Ref(Len(g.h)))), src)
\* lines 77-78
AssignServers(g) ==
    [h |-> IF ~g.raised /\ Truthy(g.h, Ref(g.servers))
           THEN SetItem(g.h, g.new, K_servers, Ref(g.servers))
           ELSE g.h,
     new |-> g.new, raised |-> g.raised]
\* lines 69-78
Servers(f, src) ==
    AssignServers(IF HasServerField(src)
                  THEN SchemesLoop(DefaultSchemes(ServersList(f)), src)
                  ELSE ServersList(f))

\* components = {}
ComponentsDict(f) ==
    [h |-> Alloc(f.h, "dict", <<>>), new |-> f.new, components |-> Len(f.h) + 1]
\* lines 84-97
FillComponents(g, src) ==
    [g EXCEPT !.h =
        CopyField(CopyField(CopyField(CopyField(@,
            g.components, src, K_definitions, K_schemas),
            g.components, src, K_parameters, K_parameters),
            g.components, src, K_responses, K_responses),
            g.components, src, K_securityDefinitions, K_securitySchemes)]
\* variant of AssignComponents: components is assigned even when it is empty
AssignComponentsAlways(g) ==
    [h |-> SetItem(g.h, g.new, K_components, Ref(g.components)),
     new |-> g.new, raised |-> FALSE]

\* lines 99-100
AssignComponents(g) ==
    [h |-> IF Truthy(g.h, Ref(g.components))
           THEN SetItem(g.h, g.new, K_components, Ref(g.components))
           ELSE g.h,
     new |-> g.new, raised |-> FALSE]
\* lines 81-100
Components(f, src) == AssignComponents(FillComponents(ComponentsDict(f), src))

\* lines 103-104
CopyPaths(f, src) == [f EXCEPT !.h = CopyField(@, f.new, src, K_paths, K_paths)]

\* variant of IsExtension: the prefix tested is x
IsExtensionLoose(k) == StartsWith(k, <<"x">>)

\* key.startswith('x-')
IsExtension(k) == StartsWith(k, S_xdash)

RECURSIVE CopyExtensionsFrom(_, _, _, _)
\* variant of CopyExtensionsFrom: the loop ends at the first extension copied
CopyFirstExtension(h, new, src, i) ==
    IF i > Len(src) THEN h
    ELSE IF IsExtension(src[i].k) THEN SetItem(h, new, src[i].k, src[i].v)
    ELSE CopyExtensionsFrom(h, new, src, i + 1)

\* lines 107-109, from the i-th key of spec on
CopyExtensionsFrom(h, new, src, i) ==
    IF i > Len(src) THEN h
    ELSE CopyExtensionsFrom(IF IsExtension(src[i].k)
                            THEN SetItem(h, new, src[i].k, src[i].v)
                            ELSE h,
                            new, src, i + 1)
CopyExtensions(f, src) == [f EXCEPT !.h = CopyExtensionsFrom(@, f.new, src, 1)]

\* lines 80-109, when building the servers raised nothing
AfterServers(f, src) ==
    IF f.raised THEN f
    ELSE CopyExtensions(CopyPaths(Components(f, src), src), src)

\* lines 52-109: the new mapping, before the references are rewritten
Build(h, src) == AfterServers(Servers(CopyBasic(NewSpec(h, src), src), src), src)

\* return new_spec, w being what convert_schema_refs(new_spec) did
Returned(w, new) ==
    IF w.raised THEN [h |-> w.h, raised |-> TRUE, v |-> Null]
    ELSE [h |-> w.h, raised |-> FALSE, v |-> Ref(new)]

\* lines 111-114
RewriteAndReturn(f) ==
    IF f.raised THEN [h |-> f.h, raised |-> TRUE, v |-> Null]
    ELSE Returned(convert_schema_refs(f.h, Ref(f.new)), f.new)

\* convert_spec(spec): [h, raised, v], v the returned value when none was raised
convert_spec(h, spec) ==
    IF IsPassthrough(h, spec) THEN [h |-> h, raised |-> FALSE, v |-> spec]
    ELSE RewriteAndReturn(Build(h, h[spec.a].items))

(***************************************************************************)
(* The documents of the converter runs: a mapping with or without the      *)
(* swagger and openapi keys and with at most MaxTopKeys further top-level  *)
(* entries taken from TopEntries, or one of a few values that are not      *)
(* mappings.                                                               *)
(***************************************************************************)
MaxTopKeys == 3

RefDefA == LegacyDefinitions \o <<"A">>
RefDefB == LegacyDefinitions \o <<"B">>
RefParP == LegacyParameters \o <<"P">>
RefResS == LegacyResponses \o <<"S">>
\* prefixes next to each other, inside each other's reach, and repeated
RefMixed == <<"a">> \o LegacyDefinitions \o LegacyParameters \o <<"X", "#", "/">>
            \o LegacyResponses \o LegacyDefinitions \o <<"Y">>
RefOf(s) == Dict(<<KV(K_ref, Str(s))>>)

TopEntries == <<
    KV(K_host, Str(<<"h">>)),
    KV(K_basePath, Str(<<"/", "v">>)),
    KV(K_schemes, List(<<>>)),
    KV(K_schemes, List(<<Str(<<"w", "s">>), Str(S_http)>>)),
    KV(K_schemes, Null),
    KV(K_info, Dict(<<KV(K_title, Str(<<"T">>))>>)),
    KV(K_definitions, Dict(<<>>)),
    KV(K_definitions, Dict(<<KV(<<"A">>, RefOf(RefDefB))>>)),
    KV(K_parameters, Dict(<<KV(<<"P">>, Dict(<<KV(<<"s", "c", "h", "e", "m", "a">>, RefOf(RefDefA))>>))>>)),
    KV(K_responses, Dict(<<KV(<<"R">>, RefOf(RefResS))>>)),
    KV(K_securityDefinitions, Dict(<<>>)),
    KV(K_paths, Dict(<<KV(<<"/", "p">>,
                          Dict(<<KV(K_parameters, List(<<RefOf(RefParP)>>))>>))>>)),
    KV(K_paths, Dict(<<KV(<<"/", "q">>, Dict(<<KV(<<"d", "e", "s", "c", "r", "i", "p", "t", "i", "o", "n">>, Str(RefDefA))>>))>>)),
    KV(K_paths, Dict(<<KV(<<"/", "r">>, Dict(<<KV(K_ref, Num(<<"1">>))>>))>>)),
    KV(<<"x", "-", "a">>, Dict(<<KV(<<"a">>, Num(<<"1">>))>>)),
    KV(<<"x", "-", "a">>, RefOf(RefDefA)),
    KV(<<"x", "-", "b">>, Str(RefResS)),
    KV(K_tags, List(<<RefOf(RefMixed)>>)),
    KV(K_security, List(<<>>)),
    KV(K_externalDocs, Dict(<<KV(K_url, Str(<<"u">>)), KV(K_ref, Str(<<>>))>>)),
    KV(<<"p", "r", "o", "d", "u", "c", "e", "s">>, List(<<Str(<<"j">>)>>)),
    KV(<<"x">>, Str(RefDefA)),
    KV(K_ref, Str(RefDefA))
>>

NonMappings == {Null, Str(RefDefA), Num(<<"7">>), List(<<>>),
                List(<<Dict(<<KV(K_swagger, Str(<<"2">>)), KV(K_ref, Str(RefDefA))>>)>>)}

RECURSIVE PicksUpTo(_)
\* the sets of at most n places of TopEntries
PicksUpTo(n) ==
    IF n = 0 THEN {{}}
    ELSE LET P == PicksUpTo(n - 1)
         IN  P \cup {p \cup {e} : p \in P, e \in 1..Len(TopEntries)}

RECURSIVE EntriesOf(_)
\* the picked entries, in the order of TopEntries
EntriesOf(p) ==
    IF p = {} THEN <<>>
    ELSE LET m == CHOOSE i \in p : \A j \in p : i <= j
         IN  <<TopEntries[m]>> \o EntriesOf(p \ {m})

\* a mapping's keys are unique
Picks == {p \in PicksUpTo(MaxTopKeys) :
             \A i, j \in p : i # j => TopEntries[i].k # TopEntries[j].k}

Heads == {<<>>,
          <<KV(K_swagger, Str(<<"2", ".", "0">>))>>,
          <<KV(K_openapi, Str(S_300))>>,
          <<KV(K_swagger, Str(<<"2", ".", "0">>)), KV(K_openapi, Str(S_300))>>}

Docs == {Dict(hd \o EntriesOf(p)) : hd \in Heads, p \in Picks} \cup NonMappings

(***************************************************************************)
(* Converter runs: a document is parsed, convert_spec is called on it, and *)
(* called again on what it returned.                                       *)
(***************************************************************************)
NoResult == [raised |-> FALSE, v |-> Null]

BatchOff ==
    /\ mpc = "off" /\ dirExists = FALSE /\ fs = <<>> /\ idx = 0 /\ count = 0
    /\ rc = -1 /\ run = 0 /\ errs = <<>> /\ log = <<>>

\* data = json.load(f), l being what Load did
Parsed(d, l) == doc = d /\ heap = l.h /\ data = l.v

Init ==
    /\ \E d \in Docs : Parsed(d, Load(<<>>, d))
    /\ pc = "parsed"
    /\ result = NoResult /\ first = Null /\ result2 = NoResult
    /\ BatchOff

Outcome(r) == [raised |-> r.raised, v |-> r.v]
Snapshot(r) == IF r.raised THEN Null ELSE Deep(r.h, r.v)

\* r being what the call did
FirstCall(r) == heap' = r.h /\ result' = Outcome(r) /\ first' = Snapshot(r)
SecondCall(r) == heap' = r.h /\ result2' = Outcome(r)

\* converted = convert_spec(data)
Convert ==
    /\ pc = "parsed"
    /\ FirstCall(convert_spec(heap, data))
    /\ pc' = "converted"
    /\ UNCHANGED <<doc, data, result2>>
    /\ UNCHANGED batchVars

\* convert_spec(converted)
ConvertAgain ==
    /\ pc = "converted"
    /\ ~result.raised
    /\ SecondCall(convert_spec(heap, result.v))
    /\ pc' = "reconverted"
    /\ UNCHANGED <<doc, data, result, first>>
    /\ UNCHANGED batchVars

Next == Convert \/ ConvertAgain

Spec == Init /\ [][Next]_vars

(***************************************************************************)
(* convert_file and main.                                                  *)
(*                                                                         *)
(* A file is [content, writable]: content is a tree, or Malformed when     *)
(* reading or parsing the file raises; opening a file that is not writable *)
(* for writing raises and leaves it as it was.  JSON and YAML files differ *)
(* in the library that parses and writes them, not in the steps taken.     *)
(***************************************************************************)
MaxFiles == 2
MaxRuns == 2

Malformed == [t |-> "malformed"]

\* variant of Failed: the except branch returns True
FailedCounted(f) == [ret |-> TRUE, err |-> TRUE, wrote |-> FALSE, content |-> f.content]

\* what convert_file does: what it returned, whether it reported an error,
\* whether it wrote, and the file's content afterwards.
\* lines 147-149: the exception is caught and reported
Failed(f) == [ret |-> FALSE, err |-> TRUE, wrote |-> FALSE, content |-> f.content]
\* lines 128 and 135: nothing to do
Skipped(f) == [ret |-> FALSE, err |-> FALSE, wrote |-> FALSE, content |-> f.content]
\* lines 138-145: the file holds the serialised document
Written(f, tree) == [ret |-> TRUE, err |-> FALSE, wrote |-> TRUE, content |-> tree]

\* variant of WriteBack: the file is written without comparing
WriteBackAlways(f, d, c) ==
    IF c.raised THEN Failed(f)
    ELSE IF ~f.writable THEN Failed(f)
    ELSE Written(f, Deep(c.h, c.v))

\* lines 133-149, c being what convert_spec(data) did
WriteBack(f, d, c) ==
    IF c.raised THEN Failed(f)
    ELSE IF PyEq(c.h, c.v, d) THEN Skipped(f)
    ELSE IF ~f.writable THEN Failed(f)
    ELSE Written(f, Deep(c.h, c.v))

\* lines 127-149, l being the parsed file
ConvertParsed(f, l) ==
    IF ~Truthy(l.h, l.v) THEN Skipped(f)
    ELSE WriteBack(f, l.v, convert_spec(l.h, l.v))

\* convert_file(filepath)
convert_file(f) ==
    IF f.content = Malformed THEN Failed(f)
    ELSE ConvertParsed(f, Load(<<>>, f.content))

Swagger2 == KV(K_swagger, Str(<<"2", ".", "0">>))

FileContents == {
    Malformed,
    Null,
    Dict(<<>>),
    Dict(<<Swagger2>>),
    Dict(<<Swagger2, TopEntries[1], TopEntries[8], TopEntries[12]>>),
    Dict(<<Swagger2, TopEntries[14]>>),
    Dict(<<KV(K_openapi, Str(S_300)), TopEntries[12]>>),
    Dict(<<TopEntries[6], TopEntries[8]>>),
    List(<<RefOf(RefDefA)>>)
}

Files == [content : FileContents, writable : BOOLEAN]

RECURSIVE SeqsUpTo(_, _)
\* the sequences over S of length at most n
SeqsUpTo(S, n) ==
    IF n = 0 THEN {<<>>}
    ELSE LET P == SeqsUpTo(S, n - 1)
         IN  P \cup {Append(q, x) : q \in P, x \in S}

ConvOff ==
    /\ pc = "off" /\ doc = Null /\ heap = <<>> /\ data = Null
    /\ result = NoResult /\ first = Null /\ result2 = NoResult

InitBatch ==
    /\ dirExists \in BOOLEAN
    /\ fs \in (IF dirExists THEN SeqsUpTo(Files, MaxFiles) ELSE {<<>>})
    /\ mpc = "idle" /\ idx = 0 /\ count = 0 /\ rc = -1 /\ run = 1
    /\ errs = <<>> /\ log = <<>>
    /\ ConvOff

\* lines 156-158
MainMissingDir ==
    /\ mpc = "idle"
    /\ ~dirExists
    /\ errs' = Append(errs, 0)
    /\ rc' = 1
    /\ mpc' = "done"
    /\ UNCHANGED <<dirExists, fs, idx, count, run, log>>
    /\ UNCHANGED convVars

\* lines 160-168: the files found, sorted, are the places 1..Len(fs) of fs
MainStart ==
    /\ mpc = "idle"
    /\ dirExists
    /\ idx' = 1
    /\ count' = 0
    /\ mpc' = "loop"
    /\ UNCHANGED <<dirExists, fs, rc, run, errs, log>>
    /\ UNCHANGED convVars

\* what one call of convert_file leaves behind, r being what it did
Account(r) ==
    /\ fs' = [fs EXCEPT ![idx].content = r.content]
    /\ count' = IF r.ret THEN count + 1 ELSE count
    /\ errs' = IF r.err THEN Append(errs, idx) ELSE errs
    /\ log' = Append(log, [run |-> run, path |-> idx, ret |-> r.ret,
                           err |-> r.err, wrote |-> r.wrote,
                           before |-> fs[idx], after |-> r.content])

\* lines 169-172: one turn of the loop
MainLoop ==
    /\ mpc = "loop"
    /\ idx <= Len(fs)
    /\ Account(convert_file(fs[idx]))
    /\ idx' = idx + 1
    /\ UNCHANGED <<mpc, dirExists, rc, run>>
    /\ UNCHANGED convVars

\* lines 174-175
MainReturn ==
    /\ mpc = "loop"
    /\ idx > Len(fs)
    /\ rc' = 0
    /\ mpc' = "done"
    /\ UNCHANGED <<dirExists, fs, idx, count, run, errs, log>>
    /\ UNCHANGED convVars

\* the script is run again, nothing else having touched the directory
Rerun ==
    /\ mpc = "done"
    /\ run < MaxRuns
    /\ run' = run + 1
    /\ mpc' = "idle" /\ idx' = 0 /\ count' = 0 /\ rc' = -1 /\ errs' = <<>>
    /\ UNCHANGED <<dirExists, fs, log>>
    /\ UNCHANGED convVars

NextBatch == MainMissingDir \/ MainStart \/ MainLoop \/ MainReturn \/ Rerun

SpecBatch == InitBatch /\ [][NextBatch]_vars

(***************************************************************************)
(* What the properties speak of.                                           *)
(***************************************************************************)
\* a legacy document: a mapping with a top-level swagger key and no openapi key
Legacy(tr) == tr.t = "dict" /\ Has(tr.items, K_swagger) /\ ~Has(tr.items, K_openapi)

\* the first call has returned / returned a value
Called == pc = "converted"
ReturnedValue == pc = "converted" /\ ~result.raised
\* the returned document and the argument, as they are after the call
Out == Deep(heap, result.v)
DataNow == Deep(heap, data)
\* the call built a new mapping from a legacy document
ConvertedLegacy == ReturnedValue /\ Legacy(doc)

HasLegacyPrefix(s) ==
    \/ Contains(s, LegacyDefinitions)
    \/ Contains(s, LegacyParameters)
    \/ Contains(s, LegacyResponses)

RECURSIVE OneScan(_)
\* the mapping table applied in a single scan from the left
OneScan(s) ==
    IF s = <<>> THEN <<>>
    ELSE IF StartsWith(s, LegacyDefinitions)
    THEN ModernSchemas \o OneScan(SubSeq(s, Len(LegacyDefinitions) + 1, Len(s)))
    ELSE IF StartsWith(s, LegacyParameters)
    THEN ModernParameters \o OneScan(SubSeq(s, Len(LegacyParameters) + 1, Len(s)))
    ELSE IF StartsWith(s, LegacyResponses)
    THEN ModernResponses \o OneScan(SubSeq(s, Len(LegacyResponses) + 1, Len(s)))
    ELSE <<Head(s)>> \o OneScan(Tail(s))

RECURSIVE TreeRewrite(_)
\* the tree with every string under a $ref key rewritten, all else as it is
TreeRewrite(tr) ==
    IF tr.t = "dict"
    THEN Dict([i \in 1..Len(tr.items) |->
                 KV(tr.items[i].k,
                    IF tr.items[i].k = K_ref /\ tr.items[i].v.t = "str"
                    THEN Str(OneScan(tr.items[i].v.s))
                    ELSE TreeRewrite(tr.items[i].v))])
    ELSE IF tr.t = "list"
    THEN List([i \in 1..Len(tr.items) |-> TreeRewrite(tr.items[i])])
    ELSE tr

RECURSIVE HasLegacyRef(_)
\* some string under a $ref key, at any depth, holds a legacy prefix
HasLegacyRef(tr) ==
    IF tr.t = "dict"
    THEN \E i \in 1..Len(tr.items) :
            \/ /\ tr.items[i].k = K_ref /\ tr.items[i].v.t = "str"
               /\ HasLegacyPrefix(tr.items[i].v.s)
            \/ HasLegacyRef(tr.items[i].v)
    ELSE IF tr.t = "list"
    THEN \E i \in 1..Len(tr.items) : HasLegacyRef(tr.items[i])
    ELSE FALSE

RECURSIVE HasLegacyString(_)
\* some string of the tree, a key or a value, holds a legacy prefix
HasLegacyString(tr) ==
    IF tr.t = "dict"
    THEN \E i \in 1..Len(tr.items) :
            HasLegacyPrefix(tr.items[i].k) \/ HasLegacyString(tr.items[i].v)
    ELSE IF tr.t = "list"
    THEN \E i \in 1..Len(tr.items) : HasLegacyString(tr.items[i])
    ELSE tr.t = "str" /\ HasLegacyPrefix(tr.s)

\* the top-level keys convert_spec copies under the same name
CopiedKeys == {K_info, K_externalDocs, K_tags, K_security, K_paths}
\* source key -> key of components
ComponentKey(k) ==
    CASE k = K_definitions -> K_schemas
      [] k = K_parameters -> K_parameters
      [] k = K_responses -> K_responses
      [] k = K_securityDefinitions -> K_securitySchemes
SourceKeys == {K_definitions, K_parameters, K_responses, K_securityDefinitions}
LegacyKeys == {K_swagger, K_host, K_basePath, K_schemes} \cup SourceKeys
ModernKeys == {K_openapi, K_info, K_externalDocs, K_tags, K_security, K_servers,
               K_components, K_paths}

(***************************************************************************)
(* C1  Passthrough: when the document is not a mapping, or has a top-level *)
(* openapi key, or has no top-level swagger key, convert_spec returns the  *)
(* very value it was given, and that value is as it was before the call.   *)
(***************************************************************************)
C1_Passthrough ==
    (Called /\ ~Legacy(doc)) =>
        /\ ~result.raised
        /\ result.v = data
        /\ Out = doc

C1_Witness ==
    /\ Called /\ doc.t = "dict"
    /\ Has(doc.items, K_openapi) /\ Has(doc.items, K_swagger)
    /\ Has(doc.items, K_host) /\ HasLegacyRef(doc)

(***************************************************************************)
(* C2  Idempotence: for a legacy document on which convert_spec succeeds,  *)
(* converting the result again gives a document structurally equal to the  *)
(* result.                                                                 *)
(***************************************************************************)
C2_Idempotence ==
    (pc = "reconverted" /\ Legacy(doc)) =>
        /\ ~result2.raised
        /\ TreeEq(Deep(heap, result2.v), first)

C2_Witness ==
    /\ pc = "reconverted" /\ Legacy(doc)
    /\ Has(doc.items, K_host) /\ Has(doc.items, K_definitions) /\ HasLegacyRef(doc)

(***************************************************************************)
(* C3  Reference rewrite.  As claimed: after the conversion of a legacy    *)
(* document that holds $ref values with legacy prefixes, no legacy prefix  *)
(* remains anywhere in the output.                                         *)
(***************************************************************************)
C3_Original ==
    (ConvertedLegacy /\ HasLegacyRef(doc)) => ~HasLegacyString(Out)

(***************************************************************************)
(* C3 as amended: after the conversion of a legacy document no string      *)
(* under a $ref key of the output, at any depth, holds a legacy prefix,    *)
(* and every copied sub-tree is the input's with the strings under its     *)
(* $ref keys rewritten by the mapping table; other strings are untouched.  *)
(***************************************************************************)
C3_RefsRewritten ==
    ConvertedLegacy =>
        /\ ~HasLegacyRef(Out)
        /\ \A k \in CopiedKeys :
              Has(doc.items, k) => Get(Out.items, k) = TreeRewrite(Get(doc.items, k))
        /\ \A k \in SourceKeys :
              Has(doc.items, k) =>
                 Get(Get(Out.items, K_components).items, ComponentKey(k))
                    = TreeRewrite(Get(doc.items, k))

C3_Witness ==
    /\ ConvertedLegacy
    /\ Has(doc.items, K_tags) /\ Has(doc.items, K_parameters) /\ Has(doc.items, K_paths)
    /\ HasLegacyRef(Get(doc.items, K_tags))
    /\ HasLegacyRef(Get(doc.items, K_parameters))
    /\ HasLegacyRef(Get(doc.items, K_paths))

(***************************************************************************)
(* C4  Servers.  What the claim expects servers to be: one {url} object    *)
(* per entry of schemes (default ["http"]), host defaulting to localhost   *)
(* and basePath to the empty string.                                       *)
(***************************************************************************)
ExpectedServers(d) ==
    LET schemes == IF Has(d.items, K_schemes)
                   THEN [i \in 1..Len(Get(d.items, K_schemes).items) |->
                            Get(d.items, K_schemes).items[i].s]
                   ELSE <<S_http>>
        host == IF Has(d.items, K_host) THEN Get(d.items, K_host).s ELSE S_localhost
        base == IF Has(d.items, K_basePath) THEN Get(d.items, K_basePath).s ELSE <<>>
    IN  List([i \in 1..Len(schemes) |->
                Dict(<<KV(K_url, Str(schemes[i] \o S_sep \o host \o base))>>)])

\* C4 as claimed: with any of host, basePath, schemes the output has that list
\* as servers, and with none of them it has no servers key
C4_Original ==
    ConvertedLegacy =>
        /\ HasServerField(doc.items) =>
              /\ Has(Out.items, K_servers)
              /\ Get(Out.items, K_servers) = ExpectedServers(doc)
        /\ ~HasServerField(doc.items) => ~Has(Out.items, K_servers)
        /\ Has(Out.items, K_servers) => Get(Out.items, K_servers).items # <<>>

(***************************************************************************)
(* C4 as amended: with any of the three keys and a schemes list that is    *)
(* not empty (or absent), servers is that list; with none of the keys, or  *)
(* with an empty schemes list, the output has no servers key; servers is   *)
(* never an empty list.                                                    *)
(***************************************************************************)
C4_Servers ==
    ConvertedLegacy =>
        IF HasServerField(doc.items) /\ ExpectedServers(doc).items # <<>>
        THEN /\ Has(Out.items, K_servers)
             /\ Get(Out.items, K_servers) = ExpectedServers(doc)
        ELSE ~Has(Out.items, K_servers)

C4_Witness ==
    /\ ConvertedLegacy
    /\ Has(doc.items, K_host) /\ Has(doc.items, K_basePath) /\ Has(doc.items, K_schemes)
    /\ Has(Out.items, K_servers)
    /\ Len(Get(Out.items, K_servers).items) = 2

(***************************************************************************)
(* C5  Components: the output of a legacy document has components exactly  *)
(* when the input has one of the four source keys; components then has     *)
(* exactly the sub-keys whose source key exists, each holding the very     *)
(* value of its source key, and is not empty.                              *)
(***************************************************************************)
C5_Components ==
    ConvertedLegacy =>
        LET src == heap[data.a].items
            new == heap[result.v.a].items
            present == {k \in SourceKeys : Has(doc.items, k)}
        IN  /\ Has(new, K_components) <=> present # {}
            /\ Has(new, K_components) =>
                  /\ IsDict(heap, Get(new, K_components))
                  /\ LET comp == heap[Get(new, K_components).a].items
                     IN  /\ comp # <<>>
                         /\ Keys(comp) = {ComponentKey(k) : k \in present}
                         /\ \A k \in present : Get(comp, ComponentKey(k)) = Get(src, k)

C5_Witness ==
    /\ ConvertedLegacy
    /\ Has(doc.items, K_responses) /\ Has(doc.items, K_securityDefinitions)
    /\ Has(doc.items, K_definitions)
    /\ Get(doc.items, K_definitions) = Dict(<<>>)

(***************************************************************************)
(* C6  Extensions.  As claimed: every top-level x- key of the input is in  *)
(* the output with the value it had before the call, and the output has no *)
(* other x- key.                                                           *)
(***************************************************************************)
C6_Original ==
    ConvertedLegacy =>
        /\ \A k \in Keys(doc.items) :
              StartsWith(k, S_xdash) =>
                 Has(Out.items, k) /\ Get(Out.items, k) = Get(doc.items, k)
        /\ \A k \in Keys(Out.items) : StartsWith(k, S_xdash) => Has(doc.items, k)

(***************************************************************************)
(* C6 as amended: every top-level x- key of the input is in the output,    *)
(* holding the very value of the input's key, which is the value it had    *)
(* before the call with the strings under its $ref keys rewritten; the     *)
(* output has no other x- key.                                             *)
(***************************************************************************)
C6_Extensions ==
    ConvertedLegacy =>
        /\ \A k \in Keys(doc.items) :
              StartsWith(k, S_xdash) =>
                 /\ Has(Out.items, k)
                 /\ Get(heap[result.v.a].items, k) = Get(heap[data.a].items, k)
                 /\ Get(Out.items, k) = TreeRewrite(Get(doc.items, k))
        /\ \A k \in Keys(Out.items) : StartsWith(k, S_xdash) => Has(doc.items, k)

C6_Witness ==
    /\ ConvertedLegacy
    /\ \E k1, k2 \in Keys(doc.items) :
          /\ k1 # k2 /\ StartsWith(k1, S_xdash) /\ StartsWith(k2, S_xdash)
          /\ HasLegacyRef(Get(doc.items, k1))
    /\ \E k \in Keys(doc.items) : ~StartsWith(k, S_xdash) /\ StartsWith(k, <<"x">>)

(***************************************************************************)
(* C7  No hybrid output: what convert_spec returns is the untouched input, *)
(* or a mapping with openapi "3.0.0" and info whose top-level keys are     *)
(* modern keys or x- keys, none of them a legacy key.                      *)
(***************************************************************************)
C7_NoHybrid ==
    ReturnedValue =>
        \/ result.v = data /\ Out = doc
        \/ /\ Out.t = "dict"
           /\ Has(Out.items, K_openapi) /\ Get(Out.items, K_openapi) = Str(S_300)
           /\ Has(Out.items, K_info)
           /\ \A k \in Keys(Out.items) : k \in ModernKeys \/ StartsWith(k, S_xdash)
           /\ Keys(Out.items) \cap LegacyKeys = {}

C7_Witness ==
    /\ ConvertedLegacy
    /\ Keys(doc.items) \cap (LegacyKeys \ {K_swagger}) # {}
    /\ \E k \in Keys(doc.items) : k \notin ModernKeys \cup LegacyKeys /\ ~StartsWith(k, S_xdash)
    /\ \E k \in Keys(doc.items) : StartsWith(k, S_xdash)

(***************************************************************************)
(* C10  Purity, as claimed: after convert_spec has returned (or raised),   *)
(* its argument is structurally equal to what it was before the call.      *)
(***************************************************************************)
C10_InputUnchanged == Called => TreeEq(DataNow, doc)

(***************************************************************************)
(* Batch runs: what the log of an invocation of main says.                 *)
(***************************************************************************)
\* what convert_file did in invocation r, in the order of the calls
RunLog(r) == SelectSeq(log, LAMBDA e : e.run = r)
Paths(l) == [i \in 1..Len(l) |-> l[i].path]
NumWritten(l) == Cardinality({i \in 1..Len(l) : l[i].wrote})
\* main has returned from its loop
Finished == mpc = "done" /\ dirExists
\* a well-formed legacy document that convert_spec converts without raising
ValidLegacy(content) ==
    /\ content # Malformed
    /\ Legacy(content)
    /\ ~convert_spec(Load(<<>>, content).h, Load(<<>>, content).v).raised

(***************************************************************************)
(* C8  Unchanged-file skip: when main is run again and nothing else has    *)
(* touched the directory, convert_file returns False for every file, no    *)
(* file is written and the converted count is 0; in any run a file that is *)
(* written gets a document that differs structurally from the one parsed,  *)
(* and a file that is not written keeps its content.                       *)
(***************************************************************************)
C8_UnchangedSkip ==
    /\ \A i \in 1..Len(log) :
          /\ log[i].run > 1 => ~log[i].ret /\ ~log[i].wrote
          /\ log[i].wrote =>
                /\ log[i].before.content # Malformed
                /\ ~TreeEq(log[i].after, log[i].before.content)
          /\ ~log[i].wrote => log[i].after = log[i].before.content
    /\ run > 1 /\ mpc \in {"loop", "done"} => count = 0

C8_Witness ==
    /\ Finished /\ run = 2 /\ Len(fs) = 2
    /\ Len(RunLog(2)) = 2
    /\ NumWritten(RunLog(1)) = 2

(***************************************************************************)
(* C9  Malformed-file isolation: when the directory exists main returns 0, *)
(* having called convert_file exactly once on every file in sorted order;  *)
(* a file whose processing raised is reported on the error stream and not  *)
(* counted; every valid legacy file that can be written is converted and   *)
(* written; the count is the number of files written.  main returns 1 only *)
(* when the directory does not exist, and then processes no file.          *)
(***************************************************************************)
C9_Isolation ==
    /\ Finished =>
          LET l == RunLog(run)
          IN  /\ rc = 0
              /\ Paths(l) = [i \in 1..Len(fs) |-> i]
              /\ count = NumWritten(l)
              /\ errs = Paths(SelectSeq(l, LAMBDA e : e.err))
              /\ \A i \in 1..Len(l) :
                    /\ l[i].err => ~l[i].ret /\ ~l[i].wrote
                    /\ l[i].ret <=> l[i].wrote
                    /\ (ValidLegacy(l[i].before.content) /\ l[i].before.writable) =>
                          /\ l[i].wrote
                          /\ l[i].after.t = "dict"
                          /\ Has(l[i].after.items, K_openapi)
                          /\ ~Has(l[i].after.items, K_swagger)
    /\ rc = 1 <=> (mpc = "done" /\ ~dirExists)
    /\ ~dirExists => log = <<>>

C9_Witness ==
    /\ Finished /\ run = 1 /\ Len(fs) = 2 /\ Len(log) = 2
    /\ log[1].before.content = Malformed /\ log[1].err
    /\ ValidLegacy(log[2].before.content) /\ log[2].wrote
    /\ errs = <<1>> /\ count = 1

====
